---- MODULE Spec2Model ----
(***************************************************************************)
(* Model of the App-Store-Data CI scripts:                                 *)
(*   - the metadata update check (staleness detector), src/unnamed/part_000 *)
(*   - the merged-PR label cleanup, src/.github/scripts/cleanup-merged-pr.js*)
(* Strings that the code inspects character by character (paths, file      *)
(* names) are sequences of one-character strings.                          *)
(***************************************************************************)
EXTENDS Integers, Sequences, FiniteSets, TLC

(* ---------------------------- bounds ----------------------------------- *)
\* number of metadata.json files the directory scan may return
MaxFiles == 2
\* length of a declaration's "files" array
MaxEntries == 2
\* number of changed files in a compare response
MaxChanged == 2

(* ------------------------- string helpers ------------------------------ *)
\* String.prototype.includes: t occurs in s at some offset ('' always does)
Includes(s, t) ==
    \E i \in 0..(Len(s) - Len(t)) : SubSeq(s, i + 1, i + Len(t)) = t

\* String.prototype.startsWith('/')
StartsWithSlash(p) == Len(p) > 0 /\ p[1] = "/"

\* trackPath.startsWith('/') ? trackPath.slice(1) : trackPath
NormalizeTrackPath(trackPath) ==
    IF StartsWithSlash(trackPath) THEN Tail(trackPath) ELSE trackPath

\* path.normalize on inputs without '.' segments: runs of '/' collapse to one
RECURSIVE CollapseSlashes(_)
CollapseSlashes(p) ==
    IF Len(p) <= 1 THEN p
    ELSE IF p[1] = "/" /\ p[2] = "/" THEN CollapseSlashes(Tail(p))
    ELSE <<p[1]>> \o CollapseSlashes(Tail(p))

\* path.join(a, b) (POSIX): empty arguments are skipped, the rest joined with
\* '/' and normalized; a is never empty here (metadata.path || '/')
PathJoin(a, b) ==
    IF b = <<>> THEN CollapseSlashes(a)
    ELSE CollapseSlashes(a \o <<"/">> \o b)

\* .replace(/\\/g, '/')
ReplaceBackslashes(p) ==
    [i \in 1..Len(p) |-> IF p[i] = "\\" THEN "/" ELSE p[i]]

(* ------------------------- detector inputs ----------------------------- *)
\* revisions the hosting service may report as the latest one
Shas == {"c1", "c2"}
\* metadata.commit: a recorded revision, or the field is missing
RecordedCommits == {"missing", "c1"}
\* metadata.path: absent (empty) or a sub-directory
MetadataPaths == {<<>>, <<"a">>}

\* one entry of metadata.files: a string, an object (value = its source,
\* empty when it has none) or null
FileEntries ==
    {[kind |-> "string", value |-> v] :
        v \in {<<>>, <<"b">>, <<"a", "\\", "b">>}}
    \cup {[kind |-> "object", value |-> v] : v \in {<<>>, <<"b">>}}
    \cup {[kind |-> "null", value |-> <<>>]}

RECURSIVE SeqsUpTo(_, _)
SeqsUpTo(S, k) ==
    IF k = 0 THEN {<<>>}
    ELSE LET shorter == SeqsUpTo(S, k - 1)
         IN  shorter \cup {Append(q, x) : q \in shorter, x \in S}

FilesValues ==
    {[isArray |-> FALSE, entries |-> <<>>]}
    \cup {[isArray |-> TRUE, entries |-> e] : e \in SeqsUpTo(FileEntries, MaxEntries)}

\* what JSON.parse(readFileSync(metadataFile)) yields; json = FALSE: it throws
NoMetadata ==
    [json |-> FALSE, commit |-> "missing", path |-> <<>>,
     files |-> [isArray |-> FALSE, entries |-> <<>>]]

Declarations ==
    {NoMetadata}
    \cup {[json |-> TRUE, commit |-> c, path |-> p, files |-> f] :
             c \in RecordedCommits, p \in MetadataPaths, f \in FilesValues}

\* repos.listCommits outcomes: a thrown error, an empty page, or one commit
ListCommitsResponses ==
    {[throws |-> TRUE, data |-> <<>>], [throws |-> FALSE, data |-> <<>>]}
    \cup {[throws |-> FALSE, data |-> <<s>>] : s \in Shas}

\* files of a compare response
ChangedFiles ==
    {[filename |-> <<"b">>, status |-> "modified"],
     [filename |-> <<"a", "/", "b">>, status |-> "added"],
     [filename |-> <<"c">>, status |-> "removed"]}

\* repos.compareCommits outcomes
CompareResponses ==
    {[throws |-> TRUE, files |-> <<>>]}
    \cup {[throws |-> FALSE, files |-> f] : f \in SeqsUpTo(ChangedFiles, MaxChanged)}

NoComparison == [throws |-> TRUE, files |-> <<>>]

(* ------------------------- detector functions -------------------------- *)
\* getLatestCommit: response.data[0], or null when the request throws
GetLatestCommit(response) ==
    IF response.throws THEN "null"
    ELSE IF response.data = <<>> THEN "undefined"
    ELSE response.data[1]

\* variant: only a null result is taken as unavailable
Truthy_NullOnly(latestCommit) == latestCommit \notin {"null", "unset"}

\* !latestCommit is false
Truthy(latestCommit) == latestCommit \notin {"null", "undefined", "unset"}

\* variant: only "changed file name contains the tracked path" is tested
IsRelevant_OneWay(file, filePaths) ==
    \E k \in 1..Len(filePaths) :
        Includes(file.filename, NormalizeTrackPath(filePaths[k]))

\* the filter callback of getFileChanges
IsRelevant(file, filePaths) ==
    \E k \in 1..Len(filePaths) :
        LET normalizedTrackPath == NormalizeTrackPath(filePaths[k])
        IN  \/ Includes(file.filename, normalizedTrackPath)
            \/ Includes(normalizedTrackPath, file.filename)

RECURSIVE FilterRelevant(_, _)
FilterRelevant(files, filePaths) ==
    IF files = <<>> THEN <<>>
    ELSE IF IsRelevant(Head(files), filePaths)
         THEN <<Head(files)>> \o FilterRelevant(Tail(files), filePaths)
         ELSE FilterRelevant(Tail(files), filePaths)

\* the null result of getFileChanges
NullChanges ==
    [isNull |-> TRUE, totalChanges |-> 0, relevantChanges |-> 0, files |-> <<>>]

\* getFileChanges
GetFileChanges(response, filePaths) ==
    IF response.throws THEN NullChanges
    ELSE LET relevantFiles == FilterRelevant(response.files, filePaths)
         IN  [isNull |-> FALSE,
              totalChanges |-> Len(response.files),
              relevantChanges |-> Len(relevantFiles),
              files |-> relevantFiles]

\* metadata.path || '/'
PathOrRoot(metadata) == IF metadata.path = <<>> THEN <<"/">> ELSE metadata.path

\* the map callback over metadata.files
MapFileEntry(metadata, file) ==
    IF file.kind = "string"
    THEN ReplaceBackslashes(PathJoin(PathOrRoot(metadata), file.value))
    ELSE IF file.value # <<>>
    THEN ReplaceBackslashes(PathJoin(PathOrRoot(metadata), file.value))
    ELSE <<>>

\* reading .source of a null entry throws a TypeError
MapThrows(metadata) ==
    /\ metadata.files.isArray
    /\ \E k \in 1..Len(metadata.files.entries) :
          metadata.files.entries[k].kind = "null"

\* variant: the mapped list is not filtered for empty paths
FilePaths_NoFilter(metadata) ==
    IF metadata.files.isArray
    THEN [k \in 1..Len(metadata.files.entries) |->
             MapFileEntry(metadata, metadata.files.entries[k])]
    ELSE <<>>

\* filePaths: metadata.files.map(...).filter(p => p), [] when not an array
FilePaths(metadata) ==
    IF metadata.files.isArray
    THEN SelectSeq([k \in 1..Len(metadata.files.entries) |->
                       MapFileEntry(metadata, metadata.files.entries[k])],
                   LAMBDA p : p # <<>>)
    ELSE <<>>

\* variant: a failed compare call is taken as a relevant change
HasRelevantChanges_FailOpen(changes) ==
    changes.isNull \/ changes.relevantChanges > 0

\* variant: the recorded revision is compared with the commit object
RecordedIsLatest_ObjectCompare(metadata, latestCommit) == FALSE

\* metadata.commit === latestCommit.sha
RecordedIsLatest(metadata, latestCommit) == metadata.commit = latestCommit

\* changes && changes.relevantChanges > 0
HasRelevantChanges(changes) == ~changes.isNull /\ changes.relevantChanges > 0

\* exit status of the node process when main() returns and nothing is pending
NaturalExit == 0

\* variant: found updates fail the workflow
ExitStatusOnCompletion_FailOnUpdates(updates) ==
    IF updates > 0 THEN 1 ELSE NaturalExit

\* process.exit(0) when updates were found, else main() returns
ExitStatusOnCompletion(updates) == IF updates > 0 THEN 0 ELSE NaturalExit

\* main().catch(console.error): the rejection is handled and only logged
ExitStatusOnRejection == NaturalExit

(* ------------------------------ state ---------------------------------- *)
VARIABLES
    pc,                \* position in main()
    fileCount,         \* metadataFiles.length
    idx,               \* index of the for-of loop over metadataFiles
    totalChecked, updatesAvailable, errors,
    metadata,          \* parsed declaration of the current iteration
    latestCommit,      \* result of getLatestCommit, "unset" before the call
    filePaths,         \* tracked paths of the current iteration
    changes,           \* result of getFileChanges
    hasRelevantChanges,
    exitCode,          \* -1 while the process runs
    comparison,        \* compare response of the current iteration
    diffCalls,         \* getFileChanges calls made in the current iteration
    upToDate,          \* number of "Up to date" verdicts reached so far
    atStart,           \* counters when the current iteration began
    thrown,            \* what threw in the current iteration
    delayed,           \* the 100 ms delay ran in the current iteration
    scanFailed         \* findMetadataFiles threw

VARIABLES
    cpc,               \* position in cleanupMergedPR()
    env,               \* process environment and event payload
    prNumber,          \* 0 = undefined
    labelsOnPR,        \* labels on the pull request at the hosting service
    currentLabelNames, \* label names returned by the list request
    labelIdx,          \* index of the loop over labelsToRemove
    requests,          \* API requests issued so far
    cleanupExit        \* -1 while the script runs

VARIABLES
    tpc,               \* position in getLastCommitTimestampForCategoryFile()
    now,               \* Math.floor(Date.now() / 1000)
    fileExists,        \* fs.existsSync(fullFilePath)
    repoState,         \* outcome of the shallow-repository check
    cmdIdx,            \* index i of the loop over gitCommands (1-based)
    tried,             \* results of the git commands run so far
    returned,          \* the returned timestamp, -1 before the return
    returnedBy         \* which return statement produced it

timestampVars ==
    <<tpc, now, fileExists, repoState, cmdIdx, tried, returned, returnedBy>>

detectorVars ==
    <<pc, fileCount, idx, totalChecked, updatesAvailable, errors, metadata,
      latestCommit, filePaths, changes, hasRelevantChanges, exitCode,
      comparison, diffCalls, upToDate, atStart, thrown, delayed, scanFailed>>

cleanupVars ==
    <<cpc, env, prNumber, labelsOnPR, currentLabelNames, labelIdx, requests,
      cleanupExit>>

vars == <<detectorVars, cleanupVars, timestampVars>>

iterationLocals ==
    <<metadata, latestCommit, filePaths, changes, hasRelevantChanges,
      comparison, diffCalls, thrown, delayed>>

counters == <<totalChecked, updatesAvailable, errors, upToDate>>

Counters == [checked |-> totalChecked, available |-> updatesAvailable,
             errors |-> errors, upToDate |-> upToDate]

ResetLocals ==
    /\ metadata' = NoMetadata
    /\ latestCommit' = "unset"
    /\ filePaths' = <<>>
    /\ changes' = NullChanges
    /\ hasRelevantChanges' = FALSE
    /\ comparison' = NoComparison
    /\ diffCalls' = 0
    /\ thrown' = "none"
    /\ delayed' = FALSE

DetectorInit ==
    /\ pc = "start"
    /\ fileCount = 0
    /\ idx = 0
    /\ totalChecked = 0
    /\ updatesAvailable = 0
    /\ errors = 0
    /\ metadata = NoMetadata
    /\ latestCommit = "unset"
    /\ filePaths = <<>>
    /\ changes = NullChanges
    /\ hasRelevantChanges = FALSE
    /\ exitCode = -1
    /\ comparison = NoComparison
    /\ diffCalls = 0
    /\ upToDate = 0
    /\ atStart = [checked |-> 0, available |-> 0, errors |-> 0, upToDate |-> 0]
    /\ thrown = "none"
    /\ delayed = FALSE
    /\ scanFailed = FALSE

CleanupIdle ==
    /\ cpc = "idle"
    /\ env = [eventName |-> "push", hasToken |-> FALSE, hasRepository |-> FALSE,
              eventPath |-> "unset", hasPullRequest |-> FALSE, number |-> 0,
              merged |-> FALSE]
    /\ prNumber = 0
    /\ labelsOnPR = {}
    /\ currentLabelNames = {}
    /\ labelIdx = 1
    /\ requests = <<>>
    /\ cleanupExit = -1

(* --------------------------- detector: main ---------------------------- *)
\* findMetadataFiles('./repositories'): readdirSync throws, or a list of files
ScanResults ==
    {[ok |-> FALSE, count |-> 0]} \cup {[ok |-> TRUE, count |-> k] : k \in 0..MaxFiles}

Scan ==
    /\ pc = "start"
    /\ \E r \in ScanResults :
          IF r.ok
          THEN /\ fileCount' = r.count
               /\ pc' = "loop"
               /\ UNCHANGED scanFailed
          ELSE /\ scanFailed' = TRUE
               /\ pc' = "rejected"
               /\ UNCHANGED fileCount
    /\ UNCHANGED <<idx, counters, iterationLocals, exitCode, atStart, cleanupVars, timestampVars>>

\* main().catch(console.error)
MainRejected ==
    /\ pc = "rejected"
    /\ exitCode' = ExitStatusOnRejection
    /\ pc' = "exited"
    /\ UNCHANGED <<fileCount, idx, counters, iterationLocals, atStart,
                   scanFailed, cleanupVars, timestampVars>>

\* for (const metadataFile of metadataFiles) { try { totalChecked++; JSON.parse
BeginIteration ==
    /\ pc = "loop"
    /\ idx < fileCount
    /\ totalChecked' = totalChecked + 1
    /\ atStart' = Counters
    /\ \E d \in Declarations :
          IF d.json
          THEN /\ metadata' = d
               /\ pc' = "parsed"
               /\ UNCHANGED thrown
          ELSE /\ thrown' = "parse"
               /\ pc' = "catch"
               /\ UNCHANGED metadata
    /\ UNCHANGED <<fileCount, idx, updatesAvailable, errors, upToDate,
                   latestCommit, filePaths, changes, hasRelevantChanges,
                   exitCode, comparison, diffCalls, delayed, scanFailed,
                   cleanupVars, timestampVars>>

\* the loop is exhausted
LoopExit ==
    /\ pc = "loop"
    /\ idx >= fileCount
    /\ pc' = "summary"
    /\ UNCHANGED <<fileCount, idx, counters, iterationLocals, exitCode, atStart,
                   scanFailed, cleanupVars, timestampVars>>

\* const latestCommit = await getLatestCommit(owner, repo, path)
FetchLatest ==
    /\ pc = "parsed"
    /\ \E response \in ListCommitsResponses :
          latestCommit' = GetLatestCommit(response)
    /\ pc' = "fetched"
    /\ UNCHANGED <<fileCount, idx, counters, metadata, filePaths, changes,
                   hasRelevantChanges, exitCode, comparison, diffCalls, atStart,
                   thrown, delayed, scanFailed, cleanupVars, timestampVars>>

\* if (!latestCommit) { errors++; continue; }
\* if (metadata.commit === latestCommit.sha) { up to date } else { ... }
CheckLatest ==
    /\ pc = "fetched"
    /\ IF ~Truthy(latestCommit)
       THEN /\ errors' = errors + 1
            /\ pc' = "next"
            /\ UNCHANGED upToDate
       ELSE IF RecordedIsLatest(metadata, latestCommit)
       THEN /\ upToDate' = upToDate + 1
            /\ pc' = "delay"
            /\ UNCHANGED errors
       ELSE /\ pc' = "mismatch"
            /\ UNCHANGED <<errors, upToDate>>
    /\ UNCHANGED <<fileCount, idx, totalChecked, updatesAvailable,
                   iterationLocals, exitCode, atStart, scanFailed, cleanupVars, timestampVars>>

\* build filePaths; with none, hasRelevantChanges = true
BuildFilePaths ==
    /\ pc = "mismatch"
    /\ IF MapThrows(metadata)
       THEN /\ thrown' = "files"
            /\ pc' = "catch"
            /\ UNCHANGED <<filePaths, hasRelevantChanges>>
       ELSE /\ filePaths' = FilePaths(metadata)
            /\ IF Len(FilePaths(metadata)) > 0
               THEN /\ pc' = "compare"
                    /\ UNCHANGED hasRelevantChanges
               ELSE /\ hasRelevantChanges' = TRUE
                    /\ pc' = "verdict"
            /\ UNCHANGED thrown
    /\ UNCHANGED <<fileCount, idx, counters, metadata, latestCommit, changes,
                   exitCode, comparison, diffCalls, atStart, delayed,
                   scanFailed, cleanupVars, timestampVars>>

\* changes = await getFileChanges(...); if (changes && relevantChanges > 0) ...
Compare ==
    /\ pc = "compare"
    /\ \E response \in CompareResponses :
          /\ comparison' = response
          /\ changes' = GetFileChanges(response, filePaths)
          /\ hasRelevantChanges' =
                HasRelevantChanges(GetFileChanges(response, filePaths))
    /\ diffCalls' = diffCalls + 1
    /\ pc' = "verdict"
    /\ UNCHANGED <<fileCount, idx, counters, metadata, latestCommit, filePaths,
                   exitCode, atStart, thrown, delayed, scanFailed, cleanupVars, timestampVars>>

\* if (!hasRelevantChanges) { up to date } else { updatesAvailable++ }
Verdict ==
    /\ pc = "verdict"
    /\ IF ~hasRelevantChanges
       THEN /\ upToDate' = upToDate + 1
            /\ UNCHANGED updatesAvailable
       ELSE /\ updatesAvailable' = updatesAvailable + 1
            /\ UNCHANGED upToDate
    /\ pc' = "delay"
    /\ UNCHANGED <<fileCount, idx, totalChecked, errors, iterationLocals,
                   exitCode, atStart, scanFailed, cleanupVars, timestampVars>>

\* await new Promise(resolve => setTimeout(resolve, 100))
Delay ==
    /\ pc = "delay"
    /\ delayed' = TRUE
    /\ pc' = "next"
    /\ UNCHANGED <<fileCount, idx, counters, metadata, latestCommit, filePaths,
                   changes, hasRelevantChanges, exitCode, comparison, diffCalls,
                   atStart, thrown, scanFailed, cleanupVars, timestampVars>>

\* variant: the catch block logs the error without counting it
CatchError_NoCount ==
    /\ pc = "catch"
    /\ pc' = "next"
    /\ UNCHANGED <<fileCount, idx, counters, iterationLocals, exitCode, atStart,
                   scanFailed, cleanupVars, timestampVars>>

\* catch (error) { errors++ }
CatchError ==
    /\ pc = "catch"
    /\ errors' = errors + 1
    /\ pc' = "next"
    /\ UNCHANGED <<fileCount, idx, totalChecked, updatesAvailable, upToDate,
                   iterationLocals, exitCode, atStart, scanFailed, cleanupVars, timestampVars>>

\* the for-of loop advances; the loop body's bindings go out of scope
NextIteration ==
    /\ pc = "next"
    /\ idx' = idx + 1
    /\ ResetLocals
    /\ pc' = "loop"
    /\ UNCHANGED <<fileCount, counters, exitCode, atStart, scanFailed,
                   cleanupVars, timestampVars>>

\* summary output, then process.exit(0) or return
Summary ==
    /\ pc = "summary"
    /\ exitCode' = ExitStatusOnCompletion(updatesAvailable)
    /\ pc' = "exited"
    /\ UNCHANGED <<fileCount, idx, counters, iterationLocals, atStart,
                   scanFailed, cleanupVars, timestampVars>>

\* clock value when the category timestamp lookup is entered
Now0 == 1800000000

TimestampIdle ==
    /\ tpc = "idle"
    /\ now = Now0
    /\ fileExists = FALSE
    /\ repoState = "unchecked"
    /\ cmdIdx = 1
    /\ tried = <<>>
    /\ returned = -1
    /\ returnedBy = "none"

Init == DetectorInit /\ CleanupIdle /\ TimestampIdle

Next ==
    \/ Scan
    \/ MainRejected
    \/ BeginIteration
    \/ LoopExit
    \/ FetchLatest
    \/ CheckLatest
    \/ BuildFilePaths
    \/ Compare
    \/ Verdict
    \/ Delay
    \/ CatchError
    \/ NextIteration
    \/ Summary

Spec == Init /\ [][Next]_vars

(* ----------------------- detector: properties -------------------------- *)
\* the current iteration is over and its bindings are still in scope
IterationDone == pc = "next"

\* a latest revision was fetched and differs from the recorded one
RevisionMismatch == Truthy(latestCommit) /\ metadata.commit # latestCommit

\* counter movements of the current iteration
NewUpdates == updatesAvailable - atStart.available
NewErrors == errors - atStart.errors
NewUpToDate == upToDate - atStart.upToDate

VerdictUpdateAvailable == NewUpdates = 1 /\ NewErrors = 0 /\ NewUpToDate = 0
VerdictUpToDate == NewUpdates = 0 /\ NewErrors = 0 /\ NewUpToDate = 1
VerdictError == NewUpdates = 0 /\ NewErrors = 1 /\ NewUpToDate = 0

\* C1: with a revision mismatch and a non-empty tracked-path list, the verdict
\* is update-available exactly when the filter reports at least one relevant
\* change; when the compare call fails (null result) the verdict is up-to-date.
C1_VerdictFollowsRelevance ==
    (IterationDone /\ RevisionMismatch /\ Len(filePaths) > 0) =>
        /\ diffCalls = 1
        /\ VerdictUpdateAvailable <=>
              (~comparison.throws /\ changes.relevantChanges >= 1)
        /\ (comparison.throws \/ changes.relevantChanges = 0) => VerdictUpToDate
        /\ comparison.throws => changes.isNull

C1_Witness ==
    /\ IterationDone /\ RevisionMismatch /\ Len(filePaths) > 0
    /\ ~comparison.throws /\ changes.relevantChanges >= 1
    /\ VerdictUpdateAvailable

\* C2: when the recorded revision equals the latest revision the verdict is
\* up-to-date (no update, no error counted) and getFileChanges is never called.
C2_EqualRevisionsShortCircuit ==
    (Truthy(latestCommit) /\ metadata.commit = latestCommit) =>
        /\ diffCalls = 0
        /\ pc \in {"fetched", "delay", "next"}
        /\ IterationDone => VerdictUpToDate

C2_Witness ==
    /\ IterationDone /\ Truthy(latestCommit) /\ metadata.commit = latestCommit
    /\ VerdictUpToDate /\ diffCalls = 0

\* the declaration yields no tracked path: files is not a list, is empty, or
\* holds only objects without a source
NoTrackedPath(m) ==
    \/ ~m.files.isArray
    \/ \A k \in 1..Len(m.files.entries) :
          m.files.entries[k].kind = "object" /\ m.files.entries[k].value = <<>>

\* C3: with a revision mismatch and an empty tracked-path list the verdict is
\* update-available and no compare call is made.
C3_EmptyTrackingFailsOpen ==
    (RevisionMismatch /\ NoTrackedPath(metadata)) =>
        /\ diffCalls = 0
        /\ pc # "compare"
        /\ IterationDone => (VerdictUpdateAvailable /\ filePaths = <<>>)

C3_Witness ==
    /\ IterationDone /\ RevisionMismatch /\ VerdictUpdateAvailable
    /\ metadata.files.isArray /\ Len(metadata.files.entries) = MaxEntries
    /\ NoTrackedPath(metadata) /\ diffCalls = 0

\* the latest-revision fetch was made and gave nothing
FetchUnavailable == latestCommit \in {"null", "undefined"}

\* C4: when the latest-revision fetch is unavailable the declaration counts as
\* exactly one error and gets no other verdict, the run goes on, and the loop
\* ends only after every declaration was processed.
C4_UnavailableFetchCountsOneError ==
    /\ (IterationDone /\ FetchUnavailable) =>
          (VerdictError /\ exitCode = -1 /\ diffCalls = 0)
    /\ FetchUnavailable => pc \in {"fetched", "next"}
    /\ pc = "summary" => (idx = fileCount /\ totalChecked = fileCount)

C4_Witness ==
    /\ IterationDone /\ FetchUnavailable /\ VerdictError
    /\ idx + 1 < fileCount

\* the declaration file is malformed: invalid JSON, or no commit field
Malformed == thrown = "parse" \/ (metadata.json /\ metadata.commit = "missing")

\* C5: every malformed declaration is counted as exactly one error and gets
\* no update-available or up-to-date verdict.
C5_MalformedCountsAsError ==
    (IterationDone /\ Malformed) => VerdictError

\* C6: every processed declaration moves exactly one of the three verdict
\* counters by one, and at the end checked = available + errors + up-to-date,
\* so the derived up-to-date count is the number of up-to-date verdicts.
C6_CountersPartitionChecked ==
    /\ IterationDone =>
          (VerdictUpdateAvailable \/ VerdictError \/ VerdictUpToDate)
    /\ pc \in {"summary", "exited"} /\ ~scanFailed =>
          /\ totalChecked = updatesAvailable + errors + upToDate
          /\ totalChecked - updatesAvailable - errors >= 0
          /\ totalChecked - updatesAvailable - errors = upToDate

C6_Witness ==
    /\ pc = "summary"
    /\ updatesAvailable >= 1 /\ errors >= 1
    /\ totalChecked = updatesAvailable + errors + upToDate

\* C7: once the whole declaration list was scanned the exit status is 0,
\* whatever the update and error counts.
C7_CompletedRunExitsZero ==
    (pc = "exited" /\ ~scanFailed) =>
        (exitCode = 0 /\ idx = fileCount /\ totalChecked = fileCount)

C7_Witness ==
    /\ pc = "exited" /\ ~scanFailed /\ exitCode = 0
    /\ updatesAvailable >= 1 /\ errors >= 1

\* C8: a failing directory scan aborts the run before any declaration is
\* processed and the process ends with a non-zero exit status.
C8_ScanFailureIsFatal ==
    (pc = "exited" /\ scanFailed) => (totalChecked = 0 /\ exitCode # 0)

\* s = u \o t \o v for some u and v
OccursIn(t, s) ==
    \E u \in 0..Len(s) : \E v \in 0..Len(s) :
        /\ u + Len(t) + v = Len(s)
        /\ \A j \in 1..Len(t) : s[u + j] = t[j]

\* the tracked path without one leading '/'
Stripped(p) ==
    IF p # <<>> /\ Head(p) = "/" THEN SubSeq(p, 2, Len(p)) ELSE p

\* containment in either direction against some stripped tracked path
MatchesSomeTrackedPath(name, paths) ==
    \E k \in DOMAIN paths :
        OccursIn(Stripped(paths[k]), name) \/ OccursIn(name, Stripped(paths[k]))

\* C9: the filter keeps exactly the changed files whose name contains, or is
\* contained in, some tracked path stripped of one leading '/';
\* relevantChanges counts them, totalChanges counts all changed files.
C9_FilterIsSymmetricSubstring ==
    (diffCalls = 1 /\ ~comparison.throws) =>
        /\ ~changes.isNull
        /\ changes.files =
              SelectSeq(comparison.files,
                        LAMBDA f : MatchesSomeTrackedPath(f.filename, filePaths))
        /\ changes.relevantChanges =
              Cardinality({i \in DOMAIN comparison.files :
                  MatchesSomeTrackedPath(comparison.files[i].filename, filePaths)})
        /\ changes.totalChanges = Len(comparison.files)
        /\ changes.relevantChanges <= changes.totalChanges

\* tracked "/b" (stripped to "b") matches the changed file "a/b" but not "c"
C9_Witness ==
    /\ diffCalls = 1 /\ ~comparison.throws
    /\ filePaths = << <<"/", "b">> >>
    /\ comparison.files = << [filename |-> <<"a", "/", "b">>, status |-> "added"],
                             [filename |-> <<"c">>, status |-> "removed"] >>
    /\ changes.relevantChanges = 1 /\ changes.totalChanges = 2

\* C11: the delay runs after the processing of every declaration, whatever
\* its outcome, before the next declaration is begun.
C11_DelayAfterEveryDeclaration ==
    IterationDone => delayed

(* ------------------- label cleanup: cleanupMergedPR -------------------- *)
\* const labelsToRemove = [...]
LabelsToRemove ==
    <<"review required", "missing metadata.json", "invalid metadata.json",
      "missing logo.png", "external contribution">>

\* labels a pull request may carry: the five above and an unrelated one
AllLabels == {LabelsToRemove[i] : i \in DOMAIN LabelsToRemove} \cup {"bug"}

\* process.env and the event payload at GITHUB_EVENT_PATH; number 0 = absent
CleanupEnvs ==
    [eventName : {"pull_request", "push"},
     hasToken : BOOLEAN,
     hasRepository : BOOLEAN,
     eventPath : {"unset", "unreadable", "ok"},
     hasPullRequest : BOOLEAN,
     number : {0, 7},
     merged : BOOLEAN]

\* eventData.pull_request?.number
EventNumber(e) == IF e.hasPullRequest THEN e.number ELSE 0

\* variant: the merged flag of the payload is not consulted
EventMerged_Unchecked(e) == TRUE

\* eventData.pull_request?.merged
EventMerged(e) == e.hasPullRequest /\ e.merged

\* fetch outcomes: network error, non-2xx response, 2xx response
FetchOutcomes == {"throws", "notok", "ok"}

CleanupReturn(code) ==
    /\ cpc' = "done"
    /\ cleanupExit' = code

\* lines 7-41: every early return before the first request
CheckEnvironment ==
    /\ cpc = "start"
    /\ IF env.eventName # "pull_request"
       THEN CleanupReturn(0) /\ UNCHANGED prNumber
       ELSE IF ~env.hasToken \/ ~env.hasRepository
       THEN CleanupReturn(0) /\ UNCHANGED prNumber
       ELSE IF env.eventPath = "unset"
       THEN CleanupReturn(0) /\ UNCHANGED prNumber
       ELSE IF env.eventPath = "unreadable"
       THEN CleanupReturn(0) /\ UNCHANGED prNumber
       ELSE /\ prNumber' = EventNumber(env)
            /\ IF ~EventMerged(env)
               THEN CleanupReturn(0)
               ELSE IF EventNumber(env) = 0
               THEN CleanupReturn(0)
               ELSE cpc' = "getLabels" /\ UNCHANGED cleanupExit
    /\ UNCHANGED <<env, labelsOnPR, currentLabelNames, labelIdx, requests,
                   detectorVars, timestampVars>>

\* lines 45-62: list the labels of the pull request
GetLabels ==
    /\ cpc = "getLabels"
    /\ requests' = Append(requests, [method |-> "GET", label |-> ""])
    /\ \E outcome \in FetchOutcomes :
          IF outcome = "throws"
          THEN CleanupReturn(1) /\ UNCHANGED currentLabelNames
          ELSE IF outcome = "notok"
          THEN CleanupReturn(0) /\ UNCHANGED currentLabelNames
          ELSE /\ currentLabelNames' = labelsOnPR
               /\ cpc' = "remove"
               /\ UNCHANGED cleanupExit
    /\ UNCHANGED <<env, prNumber, labelsOnPR, labelIdx, detectorVars, timestampVars>>

\* lines 74-92: one iteration of the loop over labelsToRemove
RemoveLabel ==
    /\ cpc = "remove"
    /\ labelIdx <= Len(LabelsToRemove)
    /\ LET labelName == LabelsToRemove[labelIdx]
       IN  IF labelName \in currentLabelNames
           THEN /\ requests' =
                      Append(requests, [method |-> "DELETE", label |-> labelName])
                /\ \E outcome \in FetchOutcomes :
                      IF outcome = "throws"
                      THEN /\ CleanupReturn(1)
                           /\ UNCHANGED <<labelsOnPR, labelIdx>>
                      ELSE /\ labelsOnPR' =
                                 IF outcome = "ok"
                                 THEN labelsOnPR \ {labelName}
                                 ELSE labelsOnPR
                           /\ labelIdx' = labelIdx + 1
                           /\ UNCHANGED <<cpc, cleanupExit>>
           ELSE /\ labelIdx' = labelIdx + 1
                /\ UNCHANGED <<requests, labelsOnPR, cpc, cleanupExit>>
    /\ UNCHANGED <<env, prNumber, currentLabelNames, detectorVars, timestampVars>>

\* line 94: the loop is over, the function returns
FinishCleanup ==
    /\ cpc = "remove"
    /\ labelIdx > Len(LabelsToRemove)
    /\ CleanupReturn(0)
    /\ UNCHANGED <<env, prNumber, labelsOnPR, currentLabelNames, labelIdx,
                   requests, detectorVars, timestampVars>>

CleanupInit ==
    /\ DetectorInit
    /\ TimestampIdle
    /\ cpc = "start"
    /\ env \in CleanupEnvs
    /\ prNumber = 0
    /\ labelsOnPR \in SUBSET AllLabels
    /\ currentLabelNames = {}
    /\ labelIdx = 1
    /\ requests = <<>>
    /\ cleanupExit = -1

CleanupNext ==
    \/ CheckEnvironment
    \/ GetLabels
    \/ RemoveLabel
    \/ FinishCleanup

SpecCleanup == CleanupInit /\ [][CleanupNext]_vars

(* ---------------------- label cleanup: properties ---------------------- *)
\* the event is a pull_request event for a merged pull request with a number
MergedPullRequestEvent ==
    /\ env.eventName = "pull_request"
    /\ env.hasPullRequest /\ env.merged /\ env.number # 0

\* C10: a DELETE request is issued only for a merged pull request with a
\* number, only for one of the five fixed labels and only if the label is on
\* the pull request; a pull request closed without merge causes no request.
C10_DeletesOnlyForMergedPR ==
    /\ \A i \in DOMAIN requests :
          requests[i].method = "DELETE" =>
              /\ MergedPullRequestEvent
              /\ \E k \in DOMAIN LabelsToRemove :
                    requests[i].label = LabelsToRemove[k]
              /\ requests[i].label \in currentLabelNames
    /\ ~(env.hasPullRequest /\ env.merged) => requests = <<>>
    /\ requests # <<>> => MergedPullRequestEvent

C10_Witness ==
    /\ cpc = "done" /\ cleanupExit = 0
    /\ MergedPullRequestEvent
    /\ "bug" \in currentLabelNames /\ "bug" \in labelsOnPR
    /\ \E i \in DOMAIN requests :
          requests[i] = [method |-> "DELETE", label |-> "missing logo.png"]
    /\ "missing logo.png" \notin labelsOnPR

(* ------- category timestamps: getLastCommitTimestampForCategoryFile ---- *)
\* seconds the clock may advance while the lookup runs
MaxTicks == 1

\* 365 * 24 * 60 * 60
OneYear == 31536000

\* 60 * 60
OneHour == 3600

\* number of entries of gitCommands
GitCommandCount == 4

\* %ct values git may print, on both sides of the two sanity limits
GitTimestamps ==
    {Now0 - OneYear - 1, Now0 - OneYear + MaxTicks, Now0,
     Now0 + OneHour, Now0 + OneHour + MaxTicks + 1}

\* execSync(gitCommand).trim(): the command fails, prints nothing, or prints
\* a commit time (ts is parseInt of that output)
GitResults ==
    {[kind |-> "throws", ts |-> 0], [kind |-> "empty", ts |-> 0]}
    \cup {[kind |-> "value", ts |-> t] : t \in GitTimestamps}

\* timestamp >= oneYearAgo && timestamp <= oneHourFromNow
PassesSanityCheck(timestamp, clock) ==
    timestamp >= clock - OneYear /\ timestamp <= clock + OneHour

TimestampReturn(value, by) ==
    /\ returned' = value
    /\ returnedBy' = by
    /\ tpc' = "done"

\* lines 9-57: existsSync, git status, shallow check, optional unshallow
CheckRepository ==
    /\ tpc = "start"
    /\ \E r \in {"error", "not-shallow", "unshallowed", "unshallow-failed"} :
          repoState' = r
    /\ tpc' = "commands"
    /\ UNCHANGED <<now, fileExists, cmdIdx, tried, returned, returnedBy,
                   detectorVars, cleanupVars>>

\* lines 67-99: one iteration of the loop over gitCommands
TryGitCommand ==
    /\ tpc = "commands"
    /\ cmdIdx <= GitCommandCount
    /\ \E result \in GitResults :
          /\ tried' = Append(tried, result)
          /\ IF result.kind = "value" /\ PassesSanityCheck(result.ts, now)
             THEN TimestampReturn(result.ts, "command") /\ UNCHANGED cmdIdx
             ELSE /\ cmdIdx' = cmdIdx + 1
                  /\ UNCHANGED <<tpc, returned, returnedBy>>
    /\ UNCHANGED <<now, fileExists, repoState, detectorVars, cleanupVars>>

\* line 102: if (fs.existsSync(fullFilePath))
AfterCommands ==
    /\ tpc = "commands"
    /\ cmdIdx > GitCommandCount
    /\ tpc' = IF fileExists THEN "directory" ELSE "fallback"
    /\ UNCHANGED <<now, fileExists, repoState, cmdIdx, tried, returned,
                   returnedBy, detectorVars, cleanupVars>>

\* lines 104-121: git log -1 --format=%ct -- releases/
DirectoryLookup ==
    /\ tpc = "directory"
    /\ \E dirResult \in GitResults :
          /\ tried' = Append(tried, dirResult)
          /\ IF dirResult.kind = "value"
             THEN TimestampReturn(dirResult.ts, "directory")
             ELSE /\ tpc' = "fallback"
                  /\ UNCHANGED <<returned, returnedBy>>
    /\ UNCHANGED <<now, fileExists, repoState, cmdIdx, detectorVars,
                   cleanupVars>>

\* lines 124-127: fallback to the current time
CurrentTimeFallback ==
    /\ tpc = "fallback"
    /\ TimestampReturn(now, "fallback")
    /\ UNCHANGED <<now, fileExists, repoState, cmdIdx, tried, detectorVars,
                   cleanupVars>>

\* the wall clock advances while the function runs
Tick ==
    /\ tpc \in {"start", "commands", "directory", "fallback"}
    /\ now < Now0 + MaxTicks
    /\ now' = now + 1
    /\ UNCHANGED <<tpc, fileExists, repoState, cmdIdx, tried, returned,
                   returnedBy, detectorVars, cleanupVars>>

TimestampInit ==
    /\ DetectorInit
    /\ CleanupIdle
    /\ tpc = "start"
    /\ now = Now0
    /\ fileExists \in BOOLEAN
    /\ repoState = "unchecked"
    /\ cmdIdx = 1
    /\ tried = <<>>
    /\ returned = -1
    /\ returnedBy = "none"

TimestampNext ==
    \/ CheckRepository
    \/ TryGitCommand
    \/ AfterCommands
    \/ DirectoryLookup
    \/ CurrentTimeFallback
    \/ Tick

SpecTimestamp == TimestampInit /\ [][TimestampNext]_vars

(* -------------------- category timestamps: properties ------------------ *)
\* no older than one year before the clock, no later than one hour after it
ValidTimestamp(t) == now - OneYear <= t /\ t <= now + OneHour

\* C12: the lookup returns the first strategy result that passes the validity
\* predicate, else the current time; so every returned timestamp passes the
\* validity predicate or is the current-time default.
C12_ReturnsValidOrCurrentTime ==
    tpc = "done" =>
        \/ ValidTimestamp(returned) /\ returnedBy # "fallback"
        \/ returnedBy = "fallback" /\ returned = now
====
